---- MODULE Spec2Model ----
(***************************************************************************)
(* Shikakeology Action Logger (src/src/App.tsx, "Refactored v5.3").        *)
(*                                                                         *)
(* The model follows the three hooks and the App component:                *)
(*   useShikakeLogger  - logs, sessionInfo, history, isRecording and the   *)
(*                       localStorage load/save effects                    *)
(*   useTouchGesture   - the single activeTouch slot and determineAction   *)
(*   App               - uiState.mode and the button handlers that drive   *)
(*                       the hooks                                         *)
(* Every event handler is one action; the save effect, which React runs    *)
(* after every render that changed logs, sessionInfo, isRecording or       *)
(* history, is part of the action that changed them.                       *)
(***************************************************************************)
EXTENDS Integers, Sequences, FiniteSets, TLC

(***************************************************************************)
(* Bounds of the model                                                     *)
(***************************************************************************)
MaxLogs == 2
MaxHist == 1
\* how many times a run reads the clock (Date.now() / new Date())
MaxTime == 4
\* how many field edits (session location / note, log entry update) a run makes
MaxEdits == 1
\* the same two bounds for the runs of HookSpec, which archive twice
HookMaxHist == 2
HookMaxTime == 5

(***************************************************************************)
(* Value domains                                                           *)
(***************************************************************************)
\* null of "number | null" / "string | null"; Date.now() is never 0 and the
\* code tests these fields by truthiness (!sessionInfo.startTime).
Null == 0

ActionType == {"Pass", "Look", "Stop", "Use"}
Gender == {"Male", "Female"}
Mode == {"idle", "setup", "recording", "finishing"}

\* identifiers of the touch points (Touch.identifier)
PointerIds == {1, 2}

\* clientX / clientY of the touch events: a start point, the point
\* 80 px below it and the point 80 px to its right
StartPoints == {<<100, 100>>}
MovePoints == {<<100, 100>>, <<100, 180>>, <<180, 100>>}

\* drag offsets in px: the short ones, the ones that with a second offset
\* give a length of exactly 50 (0/50, 30/40, 14/48), their neighbours, the
\* diagonals around length 50 (35, 36) and the long ones
ClassifyOffsets ==
    {-80, -50, -49, -48, -40, -36, -35, -30, -14, -1, 0,
     1, 14, 30, 35, 36, 40, 48, 49, 50, 80}

\* where the touch point of a drag that began at (100, 100) can be
ClassifyPoints == {<<100 + a, 100 + b>> : a \in ClassifyOffsets, b \in ClassifyOffsets}

\* the (gender, isGroup) props of the TouchZones that receive touches
Zones == {<<"Female", FALSE>>, <<"Male", TRUE>>}

\* texts typed into the location / note inputs
Texts == {"", "x"}

\* Date.prototype.toISOString of the instant t
ToISOString(t) == <<"ISO", t>>

\* useState<SessionInfo>({ startTime: null, endTime: null, note: '', location: '' })
EmptySessionInfo == [startTime |-> Null, endTime |-> Null, note |-> "", location |-> ""]

\* App: the settings used when 'shikake_settings' holds nothing
DefaultSettings == [hapticsEnabled |-> TRUE, soundEnabled |-> TRUE, darkMode |-> FALSE]

\* the localStorage keys shikake_logs, shikake_session, shikake_is_recording,
\* shikake_history and shikake_settings
StorageKeys == {"logs", "session", "isRecording", "history", "settings"}

\* what a key holds: "ok" a text written by JSON.stringify (its value is the
\* field of storage), "missing" nothing (getItem returns null) or the empty
\* string, "malformed" a text that JSON.parse rejects
KeyStates == {"ok", "missing", "malformed"}

\* what the browser offers behind navigator.vibrate and AudioContext: the API
\* is not there, it works, or calling it throws
PortStates == {"absent", "works", "throws"}
Ports == [vibrate : PortStates, audio : PortStates]
WorkingPort == [vibrate |-> "works", audio |-> "works"]

\* no call of trigger
NoFeedback == [type |-> "none", vibrate |-> <<>>, tone |-> FALSE]

\* useState<...| null>(null) of useTouchGesture: the empty slot
NoTouch == [id |-> Null, gender |-> "Male", isGroup |-> FALSE,
            startX |-> 0, startY |-> 0, currentX |-> 0, currentY |-> 0,
            selectedAction |-> "Pass"]

VARIABLES
    logs,          \* useShikakeLogger: LogEntry[]
    sessionInfo,   \* useShikakeLogger: SessionInfo
    history,       \* useShikakeLogger: ArchivedSession[], newest first
    isRecording,   \* useShikakeLogger: boolean
    mode,          \* App: uiState.mode
    activeTouch,   \* useTouchGesture: the single in-flight gesture
    storage,       \* localStorage: the four shikake_* keys of the logger
    now,           \* the wall clock: what the next Date.now() / new Date() returns
    nextId,        \* the next value crypto.randomUUID() returns
    down,          \* touch points currently on a zone
    lastOp,        \* history: the handler that ran last
    recVia,        \* history: how mode 'recording' was entered
    episode,       \* history: an undisturbed gesture, see EpisodeOpen
    edits,         \* history: the number of field edits made so far
    settings,      \* App: AppSettings
    keyState,      \* localStorage: what getItem returns for each key, see KeyStates
    crashed,       \* an exception escaped from a render: React unmounted the App
    port,          \* the browser's vibration and audio APIs, see PortStates
    feedback,      \* what the last handler's call of trigger sent to them
    download       \* the file the last handler handed to the browser to save

vars == <<logs, sessionInfo, history, isRecording, mode,
          activeTouch, storage, now, nextId, down, lastOp, recVia, episode,
          edits, settings, keyState, crashed, port, feedback,
          download>>


(***************************************************************************)
(* Pure helpers                                                            *)
(***************************************************************************)
\* AddLogFlags with 'Stop' left out of isLook
AddLogFlagsStopNotLook(action) ==
    LET isUse == action = "Use"
    IN [isPass |-> TRUE,
        isLook |-> (action = "Look" \/ isUse),
        isStop |-> (action = "Stop" \/ isUse),
        isUse  |-> isUse]

\* addLog: the flags computed from the action (isPass: true, isLook, isStop,
\* isUse)
AddLogFlags(action) ==
    LET isUse == action = "Use"
    IN [isPass |-> TRUE,
        isLook |-> (action = "Look" \/ action = "Stop" \/ isUse),
        isStop |-> (action = "Stop" \/ isUse),
        isUse  |-> isUse]

\* NewLog that gives every entry the same id
NewLogSameId(u, t, gender, isGroup, action) ==
    LET f == AddLogFlags(action)
    IN [id |-> 1, timestamp |-> ToISOString(t), unixTime |-> t,
        gender |-> gender, isGroup |-> isGroup, action |-> action, note |-> "",
        isPass |-> f.isPass, isLook |-> f.isLook, isStop |-> f.isStop,
        isUse |-> f.isUse]

\* addLog: the LogEntry built from the zone attributes, the action, the
\* instant t = new Date() and the id u = crypto.randomUUID()
NewLog(u, t, gender, isGroup, action) ==
    LET f == AddLogFlags(action)
    IN [id |-> u, timestamp |-> ToISOString(t), unixTime |-> t,
        gender |-> gender, isGroup |-> isGroup, action |-> action, note |-> "",
        isPass |-> f.isPass, isLook |-> f.isLook, isStop |-> f.isStop,
        isUse |-> f.isUse]

\* UpdateFlags with 'Stop' left out of isLook
UpdateFlagsLookOnly(updates) ==
    IF "action" \in DOMAIN updates
    THEN LET act == updates.action
             isUse == act = "Use"
         IN [isPass |-> TRUE,
             isLook |-> (act = "Look" \/ isUse),
             isStop |-> (act = "Stop" \/ isUse),
             isUse  |-> isUse]
    ELSE <<>>

\* UpdateFlags that takes 'Pass' for no action at all
UpdateFlagsSkipsPass(updates) ==
    IF "action" \in DOMAIN updates /\ updates.action # "Pass"
    THEN LET act == updates.action
             isUse == act = "Use"
         IN [isPass |-> TRUE,
             isLook |-> (act = "Look" \/ act = "Stop" \/ isUse),
             isStop |-> (act = "Stop" \/ isUse),
             isUse  |-> isUse]
    ELSE <<>>

\* UpdateFlags that resets the flags when updates carries no action
UpdateFlagsDefaultPass(updates) ==
    LET act == IF "action" \in DOMAIN updates THEN updates.action ELSE "Pass"
        isUse == act = "Use"
    IN [isPass |-> TRUE,
        isLook |-> (act = "Look" \/ act = "Stop" \/ isUse),
        isStop |-> (act = "Stop" \/ isUse),
        isUse  |-> isUse]

\* updateLog: newFlags, the flags recomputed when updates carries an action;
\* {} otherwise
UpdateFlags(updates) ==
    IF "action" \in DOMAIN updates
    THEN LET act == updates.action
             isUse == act = "Use"
         IN [isPass |-> TRUE,
             isLook |-> (act = "Look" \/ act = "Stop" \/ isUse),
             isStop |-> (act = "Stop" \/ isUse),
             isUse  |-> isUse]
    ELSE <<>>

\* { ...a, ...b }: the object spread, b's fields win
Spread(a, b) ==
    [k \in DOMAIN a \cup DOMAIN b |-> IF k \in DOMAIN b THEN b[k] ELSE a[k]]

\* UpdateLogs that falls back on the last entry when no entry has the id
UpdateLogsOrLast(prev, id, updates) ==
    [i \in 1..Len(prev) |->
        IF prev[i].id = id \/ (i = Len(prev) /\ \A j \in 1..Len(prev) : prev[j].id # id)
        THEN Spread(Spread(prev[i], updates), UpdateFlags(updates))
        ELSE prev[i]]

\* updateLog: prev.map(log => log.id !== id ? log : {...log, ...updates, ...newFlags})
UpdateLogs(prev, id, updates) ==
    [i \in 1..Len(prev) |->
        IF prev[i].id # id THEN prev[i]
        ELSE Spread(Spread(prev[i], updates), UpdateFlags(updates))]

\* DeleteLogKeep that also drops the entries recorded before the one deleted
DeleteLogKeepNewer(l, id) == l.id > id

\* deleteLog: prev.filter(l => l.id !== id)
DeleteLogKeep(l, id) == l.id # id

DeleteLogs(prev, id) == SelectSeq(prev, LAMBDA l : DeleteLogKeep(l, id))

\* UndoLogs that drops the oldest entry, prev.slice(1)
UndoLogsOldest(prev) == SubSeq(prev, 2, Len(prev))

\* undoLog: prev.slice(0, -1)
UndoLogs(prev) == SubSeq(prev, 1, Len(prev) - 1)

\* DeleteHistoryItems with the filter inverted
DeleteHistoryKeepsId(prev, id) == SelectSeq(prev, LAMBDA h : h.id = id)

\* deleteHistory: prev.filter(item => item.id !== id)
DeleteHistoryItems(prev, id) == SelectSeq(prev, LAMBDA h : h.id # id)

\* NewArchive that copies sessionInfo as it is
NewArchiveKeepsEnd(u, t, info, ls) ==
    [id |-> u, date |-> ToISOString(t), sessionInfo |-> info, logs |-> ls]

\* NewArchive with endTime: Date.now() in place of
\* sessionInfo.endTime || Date.now()
NewArchiveStampsEnd(u, t, info, ls) ==
    [id |-> u, date |-> ToISOString(t),
     sessionInfo |-> [info EXCEPT !.endTime = t],
     logs |-> ls]

\* archiveSession: the ArchivedSession built from the current logs and
\* sessionInfo (endTime: sessionInfo.endTime || Date.now())
NewArchive(u, t, info, ls) ==
    [id |-> u, date |-> ToISOString(t),
     sessionInfo |-> [info EXCEPT !.endTime = IF info.endTime # Null
                                               THEN info.endTime ELSE t],
     logs |-> ls]

\* ArchiveInsert that appends, [...prev, newArchive]
ArchiveInsertLast(prev, a) == Append(prev, a)

\* archiveSession: setHistory(prev => [newArchive, ...prev])
ArchiveInsert(prev, a) == <<a>> \o prev

\* archiveSession: setSessionInfo({ startTime: null, endTime: null, ... })
ArchiveResetInfo(info) == EmptySessionInfo

\* StartInfo that sets startTime on every start
StartInfoAlways(info, t) == [info EXCEPT !.startTime = t, !.endTime = Null]

\* startSession: startTime set to now only when unset, endTime cleared
StartInfo(info, t) ==
    IF info.startTime = Null
    THEN [info EXCEPT !.startTime = t, !.endTime = Null]
    ELSE [info EXCEPT !.endTime = Null]

\* StopInfo that does not spread prev
StopInfoDropsPrev(info, t) == [EmptySessionInfo EXCEPT !.endTime = t]

\* stopSession: setSessionInfo(prev => ({ ...prev, endTime: Date.now() }))
StopInfo(info, t) == [info EXCEPT !.endTime = t]

\* determineAction: Math.atan2(dy, dx) in degrees, normalised to [0, 360),
\* lies in [lo, hi).  The four bounds the code uses are the diagonals, where
\* the floating point value is exactly 45, 135, 225 and 315, so each test is
\* a comparison of dx and dy.
AngleIn225To315(dx, dy) ==
    dy < 0 /\ ((dx <= 0 /\ -dx <= -dy) \/ (dx > 0 /\ dx < -dy))

\* the sector (45, 135]: closed on the wrong side
AngleAbove45To135(dx, dy) ==
    dy > 0 /\ ((dx >= 0 /\ dx < dy) \/ (dx < 0 /\ -dx <= dy))

AngleIn45To135(dx, dy) ==
    dy > 0 /\ ((dx >= 0 /\ dx <= dy) \/ (dx < 0 /\ -dx < dy))

AngleFrom315OrBelow45(dx, dy) ==
    dx > 0 /\ ((dy < 0 /\ -dy <= dx) \/ (dy >= 0 /\ dy < dx))

\* the sector [180, 225): the upper half of the left sector only
AngleIn180To225(dx, dy) == dx < 0 /\ dy <= 0 /\ -dy < -dx

AngleIn135To225(dx, dy) ==
    dx < 0 /\ ((dy > 0 /\ dy <= -dx) \/ (dy <= 0 /\ -dy < -dx))

\* the distance test with 50 px counted as short
DistAtMost50(dx, dy) == dx * dx + dy * dy <= 50 * 50

\* determineAction: dist < 50 with dist = Math.sqrt(dx*dx + dy*dy)
DistBelow50(dx, dy) == dx * dx + dy * dy < 50 * 50

\* determineAction with the side sectors of the two genders exchanged
determineActionSwapped(dx, dy, gender) ==
    IF DistBelow50(dx, dy) THEN "Pass"
    ELSE IF AngleIn225To315(dx, dy) THEN "Look"
    ELSE IF AngleIn45To135(dx, dy) THEN "Use"
    ELSE IF gender # "Male" /\ AngleFrom315OrBelow45(dx, dy) THEN "Stop"
    ELSE IF gender = "Male" /\ AngleIn135To225(dx, dy) THEN "Stop"
    ELSE "Pass"

determineAction(dx, dy, gender) ==
    IF DistBelow50(dx, dy) THEN "Pass"
    ELSE IF AngleIn225To315(dx, dy) THEN "Look"
    ELSE IF AngleIn45To135(dx, dy) THEN "Use"
    ELSE IF gender = "Male" /\ AngleFrom315OrBelow45(dx, dy) THEN "Stop"
    ELSE IF gender # "Male" /\ AngleIn135To225(dx, dy) THEN "Stop"
    ELSE "Pass"

(***************************************************************************)
(* downloadCSV                                                             *)
(***************************************************************************)
\* no file was handed to the browser
NoDownload == [prefix |-> "none", total |-> 0, info |-> <<>>, rows |-> <<>>]

\* new Date(t).toLocaleString('ja-JP', { timeZone: 'Asia/Tokyo' })
ToJST(t) == <<"JST", t>>

\* cond ? '1' : '0'
Bit(cond) == IF cond THEN "1" ELSE "0"

\* the note column: the note between double quotes, its quotes doubled
QuoteNote(note) == <<"\"", note, "\"">>

\* the row of an entry with the four level columns in the order Use, Stop,
\* Look, Pass
CSVRowLevelsReversed(log) ==
    <<log.id, log.timestamp, ToJST(log.unixTime), log.unixTime,
      log.gender, log.action,
      IF log.isGroup THEN "Group" ELSE "Individual",
      Bit(log.gender = "Male"), Bit(log.gender = "Female"), Bit(log.isGroup),
      Bit(log.isUse), Bit(log.isStop), Bit(log.isLook), Bit(log.isPass),
      QuoteNote(log.note)>>

\* generateCSVContent: the row of an entry, the columns ID, Timestamp_ISO,
\* Timestamp_JST, UnixTime, Gender, Action_Raw, isGroup, isMale, isFemale,
\* isGroup_Dummy, Passing(0), Look(1), Stop(2), Use(3), Note
CSVRow(log) ==
    <<log.id, log.timestamp, ToJST(log.unixTime), log.unixTime,
      log.gender, log.action,
      IF log.isGroup THEN "Group" ELSE "Individual",
      Bit(log.gender = "Male"), Bit(log.gender = "Female"), Bit(log.isGroup),
      Bit(log.isPass), Bit(log.isLook), Bit(log.isStop), Bit(log.isUse),
      QuoteNote(log.note)>>

\* downloadCSV(targetLogs, targetInfo, prefix): 'No Data' is alerted and
\* nothing is saved when targetLogs is empty; otherwise the file holds the
\* comment lines Session Start, Session End, Location and Total Records, the
\* header line and targetLogs.map(...) as rows
downloadCSV(targetLogs, targetInfo, prefix) ==
    IF Len(targetLogs) = 0 THEN NoDownload
    ELSE [prefix |-> prefix,
          total |-> Len(targetLogs),
          info |-> <<IF targetInfo.startTime # Null
                     THEN ToJST(targetInfo.startTime) ELSE <<>>,
                     IF targetInfo.endTime # Null
                     THEN ToJST(targetInfo.endTime) ELSE <<>>,
                     targetInfo.location>>,
          rows |-> [i \in 1..Len(targetLogs) |-> CSVRow(targetLogs[i])]]

(***************************************************************************)
(* useAudioFeedback                                                        *)
(***************************************************************************)
\* trigger: if (hapticsEnabled && hapticPattern && navigator.vibrate), the
\* call navigator.vibrate(hapticPattern) is made and it throws
VibrateThrows(pattern) ==
    settings.hapticsEnabled /\ pattern # <<>> /\ port.vibrate = "throws"

\* playTone: if (!enabled) return; a statement of the body throws (creating
\* the AudioContext, the oscillator or the gain node)
PlayToneThrows == settings.soundEnabled /\ port.audio = "throws"

\* try { ... } catch (e) { ... }: whether the exception of the block leaves it
Caught(throws) == FALSE

\* trigger without the two try blocks
TriggerThrowsUncaught(pattern) == VibrateThrows(pattern) \/ PlayToneThrows

\* trigger: an exception leaves the call.  The vibrate call and the body of
\* playTone are each inside a try block.
TriggerThrows(pattern) == Caught(VibrateThrows(pattern)) \/ Caught(PlayToneThrows)

\* trigger(type, hapticPattern): what reaches the vibration motor and the
\* speaker
trigger(type, pattern) ==
    [type |-> type,
     vibrate |-> IF settings.hapticsEnabled /\ pattern # <<>> /\ port.vibrate = "works"
                 THEN pattern ELSE <<>>,
     tone |-> (settings.soundEnabled /\ port.audio = "works")]

(***************************************************************************)
(* localStorage                                                            *)
(***************************************************************************)
\* Save that writes the history key before the archive is in the state
SaveStaleHistory(l, s, r, h) ==
    [logs |-> l, session |-> s, isRecording |-> r,
     history |-> IF Len(h) > 0 THEN Tail(h) ELSE h]

\* the save effect: the four keys rewritten in full
Save(l, s, r, h) == [logs |-> l, session |-> s, isRecording |-> r, history |-> h]

\* the settings effect: localStorage.setItem('shikake_settings', ...)
SaveSettings(v) == [settings |-> v]

\* the state of the keys after the save effect has written its four keys
SavedKeys(ks) == [k \in StorageKeys |-> IF k = "settings" THEN ks[k] ELSE "ok"]

\* LoadIsRecording that restores the saved flag
LoadIsRecordingRestores(saved) == saved

\* the load effect: if (savedIsRecording) setIsRecording(false)
LoadIsRecording(saved) == FALSE

(***************************************************************************)
(* History variables                                                       *)
(***************************************************************************)
NoEpisode ==
    [st |-> "none", p |-> 0, n |-> 0, via |-> "none",
     gender |-> "Male", isGroup |-> FALSE, sx |-> 0, sy |-> 0, cat |-> "Pass"]

\* An episode is followed from a pointer-down that arrives in mode
\* 'recording' while no other touch point is on a zone: the zone it began
\* on, where it began and the category of its last move are remembered.
EpisodeOpen(p, gender, isGroup, pos) ==
    IF mode = "recording" /\ down = {}
    THEN [st |-> "open", p |-> p, n |-> Len(logs), via |-> recVia,
          gender |-> gender, isGroup |-> isGroup,
          sx |-> pos[1], sy |-> pos[2], cat |-> "Pass"]
    ELSE NoEpisode

\* It stays followed while only its own pointer produces events.
EpisodeMove(p, pos) ==
    IF episode.st = "open" /\ episode.p = p
    THEN [episode EXCEPT !.cat = determineAction(pos[1] - episode.sx,
                                                 pos[2] - episode.sy,
                                                 episode.gender)]
    ELSE NoEpisode

EpisodeClose(p) ==
    IF episode.st = "open" /\ episode.p = p
    THEN [episode EXCEPT !.st = "closed"] ELSE NoEpisode

(***************************************************************************)
(* Initial state: first run, empty localStorage, after the mount effects   *)
(***************************************************************************)
Init ==
    /\ logs = <<>>
    /\ sessionInfo = EmptySessionInfo
    /\ history = <<>>
    /\ isRecording = FALSE
    /\ mode = "idle"
    /\ activeTouch = NoTouch
    /\ storage = Spread(Save(<<>>, EmptySessionInfo, FALSE, <<>>),
                        SaveSettings(DefaultSettings))
    /\ now = 1
    /\ nextId = 1
    /\ down = {}
    /\ lastOp = "init"
    /\ recVia = "none"
    /\ episode = NoEpisode
    /\ edits = 0
    /\ settings = DefaultSettings
    /\ keyState = [k \in StorageKeys |-> "ok"]
    /\ crashed = FALSE
    /\ port = WorkingPort
    /\ feedback = NoFeedback
    /\ download = NoDownload

(***************************************************************************)
(* useShikakeLogger operations (state updates only)                        *)
(***************************************************************************)
\* addLog(gender, isGroup, action): setLogs(prev => [...prev, newLog])
addLog(gender, isGroup, action) ==
    /\ logs' = Append(logs, NewLog(nextId, now, gender, isGroup, action))
    /\ nextId' = nextId + 1
    /\ now' = now + 1

\* archiveOk without the logs.length === 0 test
archiveOkAlways == TRUE

\* archiveSession(): false on an empty log list, else snapshot and reset
archiveOk == Len(logs) # 0

archiveSession ==
    /\ history' = ArchiveInsert(history, NewArchive(nextId, now, sessionInfo, logs))
    /\ logs' = <<>>
    /\ sessionInfo' = ArchiveResetInfo(sessionInfo)
    /\ nextId' = nextId + 1
    /\ now' = now + 1

\* the save effect, run after the render that follows the handler
SaveEffect ==
    /\ storage' = Spread(storage, Save(logs', sessionInfo', isRecording', history'))
    /\ keyState' = SavedKeys(keyState)

(***************************************************************************)
(* App handlers                                                            *)
(***************************************************************************)
\* handleStartSetup that opens the recording screen at once
handleStartSetupSkipsSetup ==
    /\ mode = "idle"
    /\ mode' = "recording"
    /\ lastOp' = "beginSetup"
    /\ recVia' = "none"
    /\ episode' = NoEpisode
    /\ UNCHANGED <<logs, sessionInfo, history, isRecording,
                   activeTouch, now, nextId, down>>
    /\ UNCHANGED edits
    /\ UNCHANGED <<settings, crashed, port>>
    /\ download' = NoDownload
    /\ feedback' = trigger("open", <<10>>)
    /\ SaveEffect

\* header / welcome overlay button, rendered when uiState.mode === 'idle'
handleStartSetup ==
    /\ mode = "idle"
    /\ mode' = "setup"
    /\ lastOp' = "beginSetup"
    /\ recVia' = "none"
    /\ episode' = NoEpisode
    /\ UNCHANGED <<logs, sessionInfo, history, isRecording,
                   activeTouch, now, nextId, down>>
    /\ UNCHANGED edits
    /\ UNCHANGED <<settings, crashed, port>>
    /\ download' = NoDownload
    /\ feedback' = trigger("open", <<10>>)
    /\ SaveEffect

\* cancelSetup that discards the location and note
cancelSetupDiscards ==
    /\ mode = "setup"
    /\ mode' = "idle"
    /\ sessionInfo' = [sessionInfo EXCEPT !.location = "", !.note = ""]
    /\ lastOp' = "cancelSetup"
    /\ recVia' = "none"
    /\ episode' = NoEpisode
    /\ UNCHANGED <<logs, history, isRecording, activeTouch, now, nextId, down>>
    /\ UNCHANGED edits
    /\ UNCHANGED <<settings, crashed, port>>
    /\ download' = NoDownload
    /\ feedback' = NoFeedback
    /\ SaveEffect

\* Setup overlay, cancel button: setUiState(p => ({...p, mode: 'idle'}))
cancelSetup ==
    /\ mode = "setup"
    /\ mode' = "idle"
    /\ lastOp' = "cancelSetup"
    /\ recVia' = "none"
    /\ episode' = NoEpisode
    /\ UNCHANGED <<logs, sessionInfo, history, isRecording,
                   activeTouch, now, nextId, down>>
    /\ UNCHANGED edits
    /\ UNCHANGED <<settings, crashed, port>>
    /\ download' = NoDownload
    /\ feedback' = NoFeedback
    /\ SaveEffect

\* Setup and Finishing overlays: the location input
setLocation(v) ==
    /\ mode \in {"setup", "finishing"}
    /\ v # sessionInfo.location
    /\ sessionInfo' = [sessionInfo EXCEPT !.location = v]
    /\ lastOp' = "setLocation"
    /\ episode' = NoEpisode
    /\ UNCHANGED <<logs, history, isRecording, mode,
                   activeTouch, now, nextId, down, recVia>>
    /\ edits < MaxEdits
    /\ edits' = edits + 1
    /\ UNCHANGED <<settings, crashed, port>>
    /\ download' = NoDownload
    /\ feedback' = NoFeedback
    /\ SaveEffect

\* Setup and Finishing overlays: the note textarea
setNote(v) ==
    /\ mode \in {"setup", "finishing"}
    /\ v # sessionInfo.note
    /\ sessionInfo' = [sessionInfo EXCEPT !.note = v]
    /\ lastOp' = "setNote"
    /\ episode' = NoEpisode
    /\ UNCHANGED <<logs, history, isRecording, mode,
                   activeTouch, now, nextId, down, recVia>>
    /\ edits < MaxEdits
    /\ edits' = edits + 1
    /\ UNCHANGED <<settings, crashed, port>>
    /\ download' = NoDownload
    /\ feedback' = NoFeedback
    /\ SaveEffect

\* Setup overlay, start button: logger.startSession(); mode: 'recording'
handleStartRecording ==
    /\ mode = "setup"
    /\ now <= MaxTime
    /\ sessionInfo' = StartInfo(sessionInfo, now)
    /\ now' = now + 1
    /\ isRecording' = TRUE
    /\ mode' = "recording"
    /\ lastOp' = "start"
    /\ recVia' = "start"
    /\ episode' = NoEpisode
    /\ UNCHANGED <<logs, history, activeTouch, nextId, down>>
    /\ UNCHANGED edits
    /\ UNCHANGED <<settings, crashed, port>>
    /\ download' = NoDownload
    /\ feedback' = trigger("success", <<100>>)
    /\ SaveEffect

\* header button, rendered when uiState.mode === 'recording':
\* logger.stopSession(); mode: 'finishing'
handleStopRecording ==
    /\ mode = "recording"
    /\ now <= MaxTime
    /\ sessionInfo' = StopInfo(sessionInfo, now)
    /\ now' = now + 1
    /\ isRecording' = FALSE
    /\ mode' = "finishing"
    /\ lastOp' = "stop"
    /\ recVia' = "none"
    /\ episode' = NoEpisode
    /\ UNCHANGED <<logs, history, activeTouch, nextId, down>>
    /\ UNCHANGED edits
    /\ UNCHANGED <<settings, crashed, port>>
    /\ download' = NoDownload
    /\ feedback' = trigger("open", <<50, 50>>)
    /\ SaveEffect

\* Finishing overlay, resume button: setUiState(p => ({...p, mode: 'recording'}))
resume ==
    /\ mode = "finishing"
    /\ mode' = "recording"
    /\ lastOp' = "resume"
    /\ recVia' = "resume"
    /\ episode' = NoEpisode
    /\ UNCHANGED <<logs, sessionInfo, history, isRecording,
                   activeTouch, now, nextId, down>>
    /\ UNCHANGED edits
    /\ UNCHANGED <<settings, crashed, port>>
    /\ download' = NoDownload
    /\ feedback' = NoFeedback
    /\ SaveEffect

\* Finishing overlay, save button: archiveSession() ? mode: 'idle' : alert
handleArchive ==
    /\ mode = "finishing"
    /\ IF archiveOk
       THEN /\ Len(history) < MaxHist
            /\ now <= MaxTime
            /\ archiveSession
            /\ mode' = "idle"
            /\ lastOp' = "archive"
            /\ feedback' = trigger("success", <<50, 100>>)
       ELSE /\ lastOp' = "archiveEmpty"
            /\ feedback' = NoFeedback
            /\ UNCHANGED <<logs, sessionInfo, history, nextId, now, mode>>
    /\ recVia' = "none"
    /\ episode' = NoEpisode
    /\ UNCHANGED <<isRecording, activeTouch, down>>
    /\ UNCHANGED edits
    /\ UNCHANGED <<settings, crashed, port>>
    /\ download' = NoDownload
    /\ SaveEffect

\* log feed, Undo button: disabled={!isRecording || logs.length === 0}
UndoAvailable == isRecording /\ Len(logs) # 0

\* log feed, Undo button: onClick={logger.undoLog}
undoLog ==
    /\ UndoAvailable
    /\ logs' = UndoLogs(logs)
    /\ lastOp' = "undo"
    /\ episode' = NoEpisode
    /\ UNCHANGED <<sessionInfo, history, isRecording, mode,
                   activeTouch, now, nextId, down, recVia>>
    /\ UNCHANGED edits
    /\ UNCHANGED <<settings, crashed, port>>
    /\ download' = NoDownload
    /\ feedback' = NoFeedback
    /\ SaveEffect

\* the ids of the entries of a log list
LogIds(ls) == {ls[i].id : i \in 1..Len(ls)}

\* the partial updates the EditModal sends: { gender }, { action }, { note }
EditUpdates ==
    {[gender |-> "Male"]} \cup {[action |-> a] : a \in ActionType}
        \cup {[note |-> t] : t \in Texts \ {""}}

\* EditModal of the entry id (opened by a click on its row), gender / action
\* buttons and note input: onUpdate(log.id, u)
updateLog(id, updates) ==
    /\ id \in LogIds(logs)
    /\ logs' = UpdateLogs(logs, id, updates)
    /\ lastOp' = "update"
    /\ episode' = NoEpisode
    /\ UNCHANGED <<sessionInfo, history, isRecording, mode,
                   activeTouch, now, nextId, down, recVia>>
    /\ edits < MaxEdits
    /\ edits' = edits + 1
    /\ UNCHANGED <<settings, crashed, port>>
    /\ download' = NoDownload
    /\ feedback' = NoFeedback
    /\ SaveEffect

\* EditModal of the entry id, trash button: onDelete(log.id); onClose()
deleteLog(id) ==
    /\ id \in LogIds(logs)
    /\ logs' = DeleteLogs(logs, id)
    /\ lastOp' = "delete"
    /\ episode' = NoEpisode
    /\ UNCHANGED <<sessionInfo, history, isRecording, mode,
                   activeTouch, now, nextId, down, recVia>>
    /\ UNCHANGED edits
    /\ UNCHANGED <<settings, crashed, port>>
    /\ download' = NoDownload
    /\ feedback' = NoFeedback
    /\ SaveEffect

\* SettingsPanel, trash button of a history row: onDeleteHistory(h.id)
deleteHistory(id) ==
    /\ id \in {history[i].id : i \in 1..Len(history)}
    /\ history' = DeleteHistoryItems(history, id)
    /\ lastOp' = "deleteHistory"
    /\ episode' = NoEpisode
    /\ UNCHANGED <<logs, sessionInfo, isRecording, mode,
                   activeTouch, now, nextId, down, recVia>>
    /\ UNCHANGED edits
    /\ UNCHANGED <<settings, crashed, port>>
    /\ download' = NoDownload
    /\ feedback' = NoFeedback
    /\ SaveEffect

\* finishing overlay, the button next to resume:
\* downloadCSV(logs, sessionInfo, 'temp')
exportTemp ==
    /\ mode = "finishing"
    /\ download' = downloadCSV(logs, sessionInfo, "temp")
    /\ lastOp' = IF Len(logs) = 0 THEN "exportEmpty" ELSE "export"
    /\ episode' = NoEpisode
    /\ feedback' = NoFeedback
    /\ UNCHANGED <<logs, sessionInfo, history, isRecording, mode, activeTouch,
                   now, nextId, down, recVia, edits, settings, crashed, port>>
    /\ SaveEffect

\* SettingsPanel, download button of the i-th history row:
\* downloadCSV(h.logs, h.sessionInfo, 'history')
exportHistory(i) ==
    /\ i \in 1..Len(history)
    /\ download' = downloadCSV(history[i].logs, history[i].sessionInfo, "history")
    /\ lastOp' = IF Len(history[i].logs) = 0 THEN "exportEmpty"
                                             ELSE "exportHistory"
    /\ episode' = NoEpisode
    /\ feedback' = NoFeedback
    /\ UNCHANGED <<logs, sessionInfo, history, isRecording, mode, activeTouch,
                   now, nextId, down, recVia, edits, settings, crashed, port>>
    /\ SaveEffect

(***************************************************************************)
(* useTouchGesture handlers, wired to the four TouchZones                  *)
(***************************************************************************)
\* handleTouchStart: the guard on the logger's isRecording
TouchStartAllowed == isRecording

\* onTouchStart of the zone (gender, isGroup), touch point p at pos.  The
\* idle, setup and finishing overlays are rendered over the zones, so a
\* touch can begin on a zone only while uiState.mode is 'recording'.
handleTouchStart(p, gender, isGroup, pos) ==
    /\ mode = "recording"
    /\ p \notin down
    /\ down' = down \cup {p}
    /\ IF TouchStartAllowed
       THEN activeTouch' = [id |-> p, gender |-> gender, isGroup |-> isGroup,
                            startX |-> pos[1], startY |-> pos[2],
                            currentX |-> pos[1], currentY |-> pos[2],
                            selectedAction |-> "Pass"]
       ELSE UNCHANGED activeTouch
    /\ lastOp' = "touchStart"
    /\ episode' = EpisodeOpen(p, gender, isGroup, pos)
    /\ UNCHANGED <<logs, sessionInfo, history, isRecording, mode,
                   now, nextId, recVia>>
    /\ UNCHANGED edits
    /\ UNCHANGED <<settings, crashed, port>>
    /\ download' = NoDownload
    /\ feedback' = NoFeedback
    /\ SaveEffect

\* handleTouchMove that takes whatever touch point moved
TouchMoveFindsAny(p) == TRUE

\* handleTouchMove: changedTouches holds the touch point bound to the slot,
\* find(t => t.identifier === activeTouch.id)
TouchMoveFinds(p) == p = activeTouch.id

\* onTouchMove, changedTouches = the touch point p at pos; onMove =
\* trigger('record', 15) runs before setActiveTouch
handleTouchMove(p, pos) ==
    /\ p \in down
    /\ IF activeTouch # NoTouch /\ TouchMoveFinds(p)
       THEN LET newAction == determineAction(pos[1] - activeTouch.startX,
                                             pos[2] - activeTouch.startY,
                                             activeTouch.gender)
                changed == newAction # activeTouch.selectedAction
            IN /\ feedback' = IF changed THEN trigger("record", <<15>>)
                                         ELSE NoFeedback
               /\ activeTouch' =
                     IF changed /\ TriggerThrows(<<15>>)
                     THEN activeTouch
                     ELSE [activeTouch EXCEPT
                             !.currentX = pos[1], !.currentY = pos[2],
                             !.selectedAction = newAction]
       ELSE /\ feedback' = NoFeedback
            /\ UNCHANGED activeTouch
    /\ lastOp' = IF activeTouch # NoTouch /\ p # activeTouch.id
                 THEN "touchMoveOther" ELSE "touchMove"
    /\ episode' = EpisodeMove(p, pos)
    /\ UNCHANGED <<logs, sessionInfo, history, isRecording, mode,
                   now, nextId, down, recVia>>
    /\ UNCHANGED edits
    /\ UNCHANGED <<settings, crashed, port>>
    /\ download' = NoDownload
    /\ SaveEffect

\* handleTouchEnd: what lets the handler commit the gesture
TouchEndCommits(p) == activeTouch # NoTouch

\* onTouchEnd, the touch point p leaves the screen: onActionDetermined =
\* logger.addLog(...) and trigger('record', 50), then setActiveTouch(null)
handleTouchEnd(p) ==
    /\ p \in down
    /\ down' = down \ {p}
    /\ IF TouchEndCommits(p)
       THEN /\ Len(logs) < MaxLogs
            /\ now <= MaxTime
            /\ addLog(activeTouch.gender, activeTouch.isGroup,
                      activeTouch.selectedAction)
            /\ feedback' = trigger("record", <<50>>)
            /\ activeTouch' = IF TriggerThrows(<<50>>) THEN activeTouch
                                                       ELSE NoTouch
       ELSE /\ feedback' = NoFeedback
            /\ UNCHANGED <<logs, nextId, now, activeTouch>>
    /\ lastOp' = "touchEnd"
    /\ episode' = EpisodeClose(p)
    /\ UNCHANGED <<sessionInfo, history, isRecording, mode, recVia>>
    /\ UNCHANGED edits
    /\ UNCHANGED <<settings, crashed, port>>
    /\ download' = NoDownload
    /\ SaveEffect

(***************************************************************************)
(* Process restart                                                         *)
(***************************************************************************)
\* App, the useState initializer of settings: saved ? JSON.parse(saved) : {...}
\* runs during the first render, outside any try block
SettingsInitThrows == keyState["settings"] = "malformed"

LoadSettings ==
    IF keyState["settings"] = "ok" THEN storage.settings ELSE DefaultSettings

\* the load effect: one try block around the four reads; a key is parsed when
\* it holds a text and no JSON.parse before it has thrown
\* (shikake_is_recording is tested, never parsed)
LoadLogsRuns == keyState["logs"] = "ok"

LoadSessionRuns ==
    keyState["logs"] # "malformed" /\ keyState["session"] = "ok"

LoadHistoryRuns ==
    /\ keyState["logs"] # "malformed"
    /\ keyState["session"] # "malformed"
    /\ keyState["history"] = "ok"

\* The page is loaded (or reloaded, or killed and reopened): every useState
\* starts from its initial value; the settings initializer runs in the first
\* render; then the settings effect, the load effect and the save effect run,
\* and the save effect runs again after the render of the loaded state.
reload ==
    /\ mode' = "idle"
    /\ activeTouch' = NoTouch
    /\ down' = {}
    /\ lastOp' = "reload"
    /\ recVia' = "none"
    /\ episode' = NoEpisode
    /\ isRecording' = LoadIsRecording(storage.isRecording)
    /\ IF SettingsInitThrows
       THEN /\ crashed' = TRUE
            /\ settings' = DefaultSettings
            /\ logs' = <<>>
            /\ sessionInfo' = EmptySessionInfo
            /\ history' = <<>>
            /\ UNCHANGED <<storage, keyState>>
       ELSE /\ crashed' = FALSE
            /\ settings' = LoadSettings
            /\ logs' = IF LoadLogsRuns THEN storage.logs ELSE <<>>
            /\ sessionInfo' = IF LoadSessionRuns THEN storage.session
                                                ELSE EmptySessionInfo
            /\ history' = IF LoadHistoryRuns THEN storage.history ELSE <<>>
            /\ storage' = Spread(Save(logs', sessionInfo', isRecording', history'),
                                 SaveSettings(settings'))
            /\ keyState' = [k \in StorageKeys |-> "ok"]
    /\ UNCHANGED <<now, nextId>>
    /\ UNCHANGED edits
    /\ UNCHANGED port
    /\ feedback' = NoFeedback
    /\ download' = NoDownload

Next ==
    \/ handleStartSetup
    \/ cancelSetup
    \/ \E v \in Texts : setLocation(v)
    \/ \E v \in Texts : setNote(v)
    \/ handleStartRecording
    \/ handleStopRecording
    \/ resume
    \/ handleArchive
    \/ undoLog
    \/ \E id \in 1..MaxTime, u \in EditUpdates : updateLog(id, u)
    \/ \E id \in 1..MaxTime : deleteLog(id)
    \/ \E id \in 1..MaxTime : deleteHistory(id)
    \/ exportTemp
    \/ \E i \in 1..MaxHist : exportHistory(i)
    \/ \E p \in PointerIds, z \in Zones, pos \in StartPoints :
          handleTouchStart(p, z[1], z[2], pos)
    \/ \E p \in PointerIds, pos \in MovePoints : handleTouchMove(p, pos)
    \/ \E p \in PointerIds : handleTouchEnd(p)
    \/ reload

Spec == Init /\ [][Next]_vars

(***************************************************************************)
(* The logger hook on its own: the functions useShikakeLogger returns,     *)
(* called in any order and with any id, as a component other than App may  *)
(* call them.  The App state (uiState.mode, the gesture) stays as mounted. *)
(***************************************************************************)
HookFrame ==
    UNCHANGED <<mode, activeTouch, down, recVia, episode, settings, crashed,
                port, feedback, download>>

\* the arguments addLog is called with
HookLogInputs == {<<"Female", FALSE, "Use">>, <<"Male", TRUE, "Pass">>}

\* the partial updates updateLog is called with
HookUpdates == {[action |-> "Pass"], [action |-> "Stop"], [isGroup |-> TRUE]}

\* the ids updateLog, deleteLog and deleteHistory are called with
HookIds == 1..HookMaxTime

callStartSession ==
    /\ now <= HookMaxTime
    /\ sessionInfo' = StartInfo(sessionInfo, now)
    /\ now' = now + 1
    /\ isRecording' = TRUE
    /\ lastOp' = "start"
    /\ UNCHANGED <<logs, history, nextId, edits>>
    /\ HookFrame
    /\ SaveEffect

callStopSession ==
    /\ now <= HookMaxTime
    /\ sessionInfo' = StopInfo(sessionInfo, now)
    /\ now' = now + 1
    /\ isRecording' = FALSE
    /\ lastOp' = "stop"
    /\ UNCHANGED <<logs, history, nextId, edits>>
    /\ HookFrame
    /\ SaveEffect

\* setSessionInfo(p => ({...p, location: v}))
callSetSessionInfo(v) ==
    /\ v # sessionInfo.location
    /\ edits < MaxEdits
    /\ edits' = edits + 1
    /\ sessionInfo' = [sessionInfo EXCEPT !.location = v]
    /\ lastOp' = "setLocation"
    /\ UNCHANGED <<logs, history, isRecording, now, nextId>>
    /\ HookFrame
    /\ SaveEffect

callAddLog(gender, isGroup, action) ==
    /\ Len(logs) < MaxLogs
    /\ now <= HookMaxTime
    /\ addLog(gender, isGroup, action)
    /\ lastOp' = "addLog"
    /\ UNCHANGED <<sessionInfo, history, isRecording, edits>>
    /\ HookFrame
    /\ SaveEffect

callUpdateLog(id, updates) ==
    /\ edits < MaxEdits
    /\ edits' = edits + 1
    /\ logs' = UpdateLogs(logs, id, updates)
    /\ lastOp' = IF id \in LogIds(logs) THEN "update" ELSE "updateAbsent"
    /\ UNCHANGED <<sessionInfo, history, isRecording, now, nextId>>
    /\ HookFrame
    /\ SaveEffect

callDeleteLog(id) ==
    /\ logs' = DeleteLogs(logs, id)
    /\ lastOp' = IF id \in LogIds(logs) THEN "delete" ELSE "deleteAbsent"
    /\ UNCHANGED <<sessionInfo, history, isRecording, now, nextId, edits>>
    /\ HookFrame
    /\ SaveEffect

callUndoLog ==
    /\ logs' = UndoLogs(logs)
    /\ lastOp' = IF Len(logs) # 0 THEN "undo" ELSE "undoEmpty"
    /\ UNCHANGED <<sessionInfo, history, isRecording, now, nextId, edits>>
    /\ HookFrame
    /\ SaveEffect

callArchiveSession ==
    /\ IF archiveOk
       THEN /\ Len(history) < HookMaxHist
            /\ now <= HookMaxTime
            /\ archiveSession
            /\ lastOp' = "archive"
       ELSE /\ lastOp' = "archiveEmpty"
            /\ UNCHANGED <<logs, sessionInfo, history, nextId, now>>
    /\ UNCHANGED <<isRecording, edits>>
    /\ HookFrame
    /\ SaveEffect

callDeleteHistory(id) ==
    /\ history' = DeleteHistoryItems(history, id)
    /\ lastOp' = IF \E i \in 1..Len(history) : history[i].id = id
                 THEN "deleteHistory" ELSE "deleteHistoryAbsent"
    /\ UNCHANGED <<logs, sessionInfo, isRecording, now, nextId, edits>>
    /\ HookFrame
    /\ SaveEffect

HookNext ==
    \/ callStartSession
    \/ callStopSession
    \/ \E v \in Texts : callSetSessionInfo(v)
    \/ \E a \in HookLogInputs : callAddLog(a[1], a[2], a[3])
    \/ \E id \in HookIds, u \in HookUpdates : callUpdateLog(id, u)
    \/ \E id \in HookIds : callDeleteLog(id)
    \/ callUndoLog
    \/ callArchiveSession
    \/ \E id \in HookIds : callDeleteHistory(id)
    \/ reload

HookSpec == Init /\ [][HookNext]_vars

(***************************************************************************)
(* Startup on any localStorage: the page is opened on keys that hold what   *)
(* an earlier run stored, nothing, or a text that is not JSON.             *)
(***************************************************************************)
\* what an earlier run may have stored under each key
StoredLogs == {<<>>, <<NewLog(1, 2, "Female", FALSE, "Use")>>}

StoredSessions ==
    {EmptySessionInfo, [EmptySessionInfo EXCEPT !.startTime = 1, !.location = "x"]}

StoredHistories ==
    {<<>>, <<NewArchive(2, 2, [EmptySessionInfo EXCEPT !.startTime = 1],
                        <<NewLog(1, 1, "Male", TRUE, "Pass")>>)>>}

StoredSettings == {DefaultSettings, [DefaultSettings EXCEPT !.darkMode = TRUE]}

\* the value the model keeps for a key that holds no parsable text
StorageDefaults ==
    Spread(Save(<<>>, EmptySessionInfo, FALSE, <<>>), SaveSettings(DefaultSettings))

\* the page before it is mounted: the useState initial values, any storage
StartupInit ==
    /\ keyState \in [StorageKeys -> KeyStates]
    /\ storage \in [logs : StoredLogs, session : StoredSessions,
                     isRecording : BOOLEAN, history : StoredHistories,
                     settings : StoredSettings]
    /\ \A k \in StorageKeys : keyState[k] # "ok" => storage[k] = StorageDefaults[k]
    /\ logs = <<>>
    /\ sessionInfo = EmptySessionInfo
    /\ history = <<>>
    /\ isRecording = FALSE
    /\ mode = "idle"
    /\ activeTouch = NoTouch
    /\ now = 3
    /\ nextId = 3
    /\ down = {}
    /\ lastOp = "init"
    /\ recVia = "none"
    /\ episode = NoEpisode
    /\ edits = 0
    /\ settings = DefaultSettings
    /\ crashed = FALSE
    /\ port = WorkingPort
    /\ feedback = NoFeedback
    /\ download = NoDownload

StartupNext == reload

StartupSpec == StartupInit /\ [][StartupNext]_vars

(***************************************************************************)
(* A drag in flight: the state after beginSetup, start and a touch that    *)
(* began on one of the zones at (100, 100); the touch point then moves     *)
(***************************************************************************)
ClassifyInit ==
    \E zone \in Zones, pos \in StartPoints :
        /\ logs = <<>>
        /\ sessionInfo = StartInfo(EmptySessionInfo, 1)
        /\ history = <<>>
        /\ isRecording = TRUE
        /\ mode = "recording"
        /\ activeTouch = [id |-> 1, gender |-> zone[1], isGroup |-> zone[2],
                          startX |-> pos[1], startY |-> pos[2],
                          currentX |-> pos[1], currentY |-> pos[2],
                          selectedAction |-> "Pass"]
        /\ storage = Spread(Save(logs, sessionInfo, isRecording, history),
                            SaveSettings(DefaultSettings))
        /\ now = 2
        /\ nextId = 1
        /\ down = {1}
        /\ lastOp = "touchStart"
        /\ recVia = "start"
        /\ episode = [st |-> "open", p |-> 1, n |-> 0, via |-> "start",
                      gender |-> zone[1], isGroup |-> zone[2],
                      sx |-> pos[1], sy |-> pos[2], cat |-> "Pass"]
        /\ edits = 0
        /\ settings = DefaultSettings
        /\ keyState = [k \in StorageKeys |-> "ok"]
        /\ crashed = FALSE
        /\ port = WorkingPort
        /\ feedback = NoFeedback
        /\ download = NoDownload

ClassifyNext == \E p \in PointerIds, pos \in ClassifyPoints : handleTouchMove(p, pos)

ClassifySpec == ClassifyInit /\ [][ClassifyNext]_vars

(***************************************************************************)
(* The handlers that call trigger, in a browser whose vibration and audio  *)
(* APIs are absent, working or throwing                                    *)
(***************************************************************************)
FeedbackInit ==
    /\ logs = <<>>
    /\ sessionInfo = EmptySessionInfo
    /\ history = <<>>
    /\ isRecording = FALSE
    /\ mode = "idle"
    /\ activeTouch = NoTouch
    /\ storage = Spread(Save(<<>>, EmptySessionInfo, FALSE, <<>>),
                        SaveSettings(DefaultSettings))
    /\ now = 1
    /\ nextId = 1
    /\ down = {}
    /\ lastOp = "init"
    /\ recVia = "none"
    /\ episode = NoEpisode
    /\ edits = 0
    /\ settings = DefaultSettings
    /\ keyState = [k \in StorageKeys |-> "ok"]
    /\ crashed = FALSE
    /\ port \in Ports
    /\ feedback = NoFeedback
    /\ download = NoDownload

FeedbackNext ==
    \/ handleStartSetup
    \/ handleStartRecording
    \/ handleStopRecording
    \/ handleArchive
    \/ \E p \in PointerIds, z \in Zones, pos \in StartPoints :
          handleTouchStart(p, z[1], z[2], pos)
    \/ \E p \in PointerIds, pos \in MovePoints : handleTouchMove(p, pos)
    \/ \E p \in PointerIds : handleTouchEnd(p)

FeedbackSpec == FeedbackInit /\ [][FeedbackNext]_vars

(***************************************************************************)
(* Properties                                                              *)
(***************************************************************************)
C1_NoLogOutsideRecording_Step ==
    mode \in {"idle", "setup", "finishing"} => Len(logs') <= Len(logs)

\* C1: the LogStore never gains an entry in a step taken while the session
\* state is Idle, Setup or Finishing.
C1_NoLogOutsideRecording == [][C1_NoLogOutsideRecording_Step]_vars

C2_ArchiveSnapshots_Step ==
    (handleArchive /\ Len(logs) >= 1) =>
        /\ Len(history') = Len(history) + 1
        /\ history'[1].logs = logs
        /\ history'[1].sessionInfo = sessionInfo
        /\ SubSeq(history', 2, Len(history')) = history
        /\ logs' = <<>>
        /\ sessionInfo' = EmptySessionInfo
        /\ mode' = "idle"

\* C2: archive in Finishing with at least one entry prepends exactly one
\* ArchivedSession whose logs and sessionInfo are the pre-archive LogStore
\* and SessionInfo, and leaves LogStore empty, SessionInfo all-empty and the
\* state Idle.
C2_ArchiveSnapshots == [][C2_ArchiveSnapshots_Step]_vars

\* a session with a Use entry and a location has just been archived
C2_Witness ==
    /\ lastOp = "archive"
    /\ mode = "idle"
    /\ Len(history) = 1
    /\ \E i \in 1..Len(history[1].logs) : history[1].logs[i].isUse
    /\ history[1].sessionInfo.location # ""
    /\ history[1].sessionInfo.endTime > history[1].sessionInfo.startTime
    /\ logs = <<>>

C3_ArchiveEmptyFails_Step ==
    (handleArchive /\ Len(logs) = 0) =>
        /\ mode' = "finishing"
        /\ logs' = logs
        /\ sessionInfo' = sessionInfo
        /\ history' = history
        /\ storage' = storage

\* C3: archive on an empty LogStore leaves the state Finishing and LogStore,
\* SessionInfo and ArchiveStore unchanged.
C3_ArchiveEmptyFails == [][C3_ArchiveEmptyFails_Step]_vars

\* the save button was pressed in Finishing with no entry recorded
C3_Witness ==
    /\ lastOp = "archiveEmpty"
    /\ mode = "finishing"
    /\ logs = <<>>
    /\ sessionInfo.endTime # Null

\* C4: in every reachable state where the session state is Recording,
\* SessionInfo.endTime is null.
C4_RecordingHasNoEndTime ==
    mode = "recording" => sessionInfo.endTime = Null

\* C5: after resume, a pointer-down on a zone followed by that pointer's
\* pointer-up (with no other event in between but moves of that pointer)
\* appends exactly one entry to the LogStore.
C5_ResumedRecordingWorks ==
    (episode.st = "closed" /\ episode.via = "resume") =>
        Len(logs) = episode.n + 1

C6_StartTimeStable_Step ==
    /\ (handleStartRecording /\ sessionInfo.startTime = Null)
          => (sessionInfo'.startTime = now)
    /\ (sessionInfo.startTime # Null)
          => (\/ sessionInfo'.startTime = sessionInfo.startTime
              \/ /\ handleArchive
                 /\ Len(logs) >= 1
                 /\ sessionInfo'.startTime = Null)
    /\ (sessionInfo.startTime = Null /\ sessionInfo'.startTime # Null)
          => handleStartRecording

\* C6: start sets startTime to the current instant only when it is unset;
\* once set, startTime changes only to null and only on a successful archive;
\* it becomes set only by start.
C6_StartTimeStable == [][C6_StartTimeStable_Step]_vars

\* start has just run on a session whose startTime was set by an earlier start
C6_Witness ==
    /\ lastOp = "start"
    /\ sessionInfo.startTime # Null
    /\ sessionInfo.startTime + 1 < now
    /\ sessionInfo.endTime = Null

C7_StopFrame_Step ==
    handleStopRecording =>
        /\ sessionInfo' = [sessionInfo EXCEPT !.endTime = now]
        /\ logs' = logs
        /\ history' = history
        /\ mode' = "finishing"

\* C7: stop sets endTime to the current instant and leaves the LogStore, the
\* ArchiveStore and startTime, location and note unchanged.
C7_StopFrame == [][C7_StopFrame_Step]_vars

\* stop has just run on a session with an entry and a location
C7_Witness ==
    /\ lastOp = "stop"
    /\ mode = "finishing"
    /\ sessionInfo.endTime + 1 = now
    /\ sessionInfo.startTime # Null
    /\ sessionInfo.location # ""
    /\ Len(logs) >= 1

C8_SetupFrame_Step ==
    /\ handleStartSetup =>
          (/\ mode = "idle" /\ mode' = "setup"
           /\ UNCHANGED <<logs, sessionInfo, history, isRecording, storage>>)
    /\ cancelSetup =>
          (/\ mode = "setup" /\ mode' = "idle"
           /\ UNCHANGED <<logs, sessionInfo, history, isRecording, storage>>)

\* C8: beginSetup and cancelSetup change only the phase: SessionInfo,
\* LogStore and ArchiveStore are the same after the transition as before it.
C8_SetupFrame == [][C8_SetupFrame_Step]_vars

\* Setup was cancelled after a location was typed into it
C8_Witness ==
    /\ lastOp = "cancelSetup"
    /\ mode = "idle"
    /\ sessionInfo.location # ""
    /\ sessionInfo.startTime = Null
    /\ logs = <<>>
    /\ history = <<>>

C9_ReloadNotRecording_Step ==
    /\ reload => (mode' = "idle" /\ ~isRecording' /\ ~storage'.isRecording)
    /\ (~isRecording /\ isRecording') => (mode = "setup" /\ handleStartRecording)
    /\ (mode = "idle") => (mode' \in {"idle", "setup"})

\* C9: after a reload the session state is Idle and the recording flag is
\* false whatever the persisted flag was; the flag becomes true again only by
\* start, pressed in Setup, and Setup is the only state entered from Idle.
C9_ReloadNotRecording == [][C9_ReloadNotRecording_Step]_vars

\* the page was reloaded while a run started by start was still Recording
C9_Witness ==
    /\ lastOp = "reload"
    /\ mode = "idle"
    /\ ~isRecording
    /\ sessionInfo.startTime # Null
    /\ sessionInfo.endTime = Null
    /\ Len(logs) >= 1

\* the flag chain isUse => isStop => isLook => isPass, with isPass true
FlagsMonotone(l) ==
    /\ l.isPass
    /\ l.isUse => l.isStop
    /\ l.isStop => l.isLook
    /\ l.isLook => l.isPass

\* C10: every entry in the LogStore and in every ArchivedSession satisfies
\* isUse => isStop => isLook => isPass and isPass = true.
C10_FlagsMonotone ==
    /\ \A i \in 1..Len(logs) : FlagsMonotone(logs[i])
    /\ \A h \in 1..Len(history) :
          \A i \in 1..Len(history[h].logs) : FlagsMonotone(history[h].logs[i])

\* an entry recorded in the Female zone was edited to Stop (the zone's own
\* gestures give it Pass or Use) and then archived
C10_Witness ==
    /\ lastOp = "archive"
    /\ Len(history) = 1
    /\ \E i \in 1..Len(history[1].logs) :
          /\ history[1].logs[i].gender = "Female"
          /\ history[1].logs[i].action = "Stop"
          /\ history[1].logs[i].isLook

\* the FlagSet of the category X
C11_DerivedFlags(X) ==
    [isPass |-> TRUE,
     isUse  |-> (X = "Use"),
     isStop |-> (X \in {"Stop", "Use"}),
     isLook |-> (X \in {"Look", "Stop", "Use"})]

C11_UpdateActionSetsFlags_Step ==
    \A id \in LogIds(logs), X \in ActionType :
        (lastOp' = "update" /\ updateLog(id, [action |-> X])) =>
            /\ Len(logs') = Len(logs)
            /\ \A i \in 1..Len(logs) :
                  IF logs[i].id = id
                  THEN logs'[i] =
                         [logs[i] EXCEPT
                            !.action = X,
                            !.isPass = C11_DerivedFlags(X).isPass,
                            !.isUse  = C11_DerivedFlags(X).isUse,
                            !.isStop = C11_DerivedFlags(X).isStop,
                            !.isLook = C11_DerivedFlags(X).isLook]
                  ELSE logs'[i] = logs[i]

\* C11: updateLog(id, {action: X}) on a present id sets the entry's action to
\* X and its four flags to the FlagSet of X, for every X including Pass, and
\* leaves the entry's other fields, its position and every other entry
\* unchanged.
C11_UpdateActionSetsFlags == [][C11_UpdateActionSetsFlags_Step]_vars

\* while Recording, one of two entries was edited to Look
C11_Witness ==
    /\ lastOp = "update"
    /\ mode = "recording"
    /\ Len(logs) = 2
    /\ logs[1].action = "Look"
    /\ logs[1].isLook /\ ~logs[1].isStop /\ ~logs[1].isUse
    /\ logs[1].gender = "Female"
    /\ logs[2].action = "Use"

C12_UpdateOtherKeepsFlags_Step ==
    \A id \in LogIds(logs), u \in EditUpdates :
        (lastOp' = "update" /\ "action" \notin DOMAIN u /\ updateLog(id, u)) =>
            /\ Len(logs') = Len(logs)
            /\ \A i \in 1..Len(logs) :
                  IF logs[i].id = id
                  THEN /\ logs'[i].action = logs[i].action
                       /\ logs'[i].isPass = logs[i].isPass
                       /\ logs'[i].isLook = logs[i].isLook
                       /\ logs'[i].isStop = logs[i].isStop
                       /\ logs'[i].isUse = logs[i].isUse
                       /\ \A k \in DOMAIN u : logs'[i][k] = u[k]
                       /\ \A k \in DOMAIN logs[i] \ DOMAIN u :
                             logs'[i][k] = logs[i][k]
                  ELSE logs'[i] = logs[i]

\* C12: updateLog with an update that carries no action (gender or note)
\* leaves the entry's action and four flags unchanged, sets the fields of the
\* update and changes no other entry.
C12_UpdateOtherKeepsFlags == [][C12_UpdateOtherKeepsFlags_Step]_vars

\* while Recording, the note of a Use entry was edited
C12_Witness ==
    /\ lastOp = "update"
    /\ mode = "recording"
    /\ Len(logs) = 2
    /\ logs[2].note = "x"
    /\ logs[2].action = "Use"
    /\ logs[2].isUse /\ logs[2].isStop /\ logs[2].isLook
    /\ logs[1].note = ""

C14_DeleteRemovesOne_Step ==
    \A id \in LogIds(logs) :
        (lastOp' = "delete" /\ deleteLog(id)) =>
            \E k \in 1..Len(logs) :
                /\ logs[k].id = id
                /\ logs' = SubSeq(logs, 1, k - 1) \o SubSeq(logs, k + 1, Len(logs))

C13_UndoIsLifo_Step ==
    /\ (lastOp' \in {"undo", "undoEmpty"} /\ callUndoLog) =>
          (/\ IF Len(logs) = 0
                 THEN logs' = <<>>
                 ELSE logs' \o <<logs[Len(logs)]>> = logs
           /\ UNCHANGED <<sessionInfo, history, isRecording>>)
    /\ \A a \in HookLogInputs :
          (lastOp' = "addLog" /\ callAddLog(a[1], a[2], a[3])) =>
              (/\ Len(logs') = Len(logs) + 1
               /\ UndoLogs(logs') = logs)

\* C13: undoLog removes exactly the last element of the LogStore, whatever
\* its id, so the undo of an append gives back the sequence before the
\* append; undoLog on an empty LogStore changes nothing.
C13_UndoIsLifo == [][C13_UndoIsLifo_Step]_vars

\* two entries were appended and the second was undone
C13_Witness ==
    /\ lastOp = "undo"
    /\ Len(logs) = 1
    /\ logs[1].id = 1
    /\ nextId = 3

C15_AbsentIdIsNoOp_Step ==
    /\ \A id \in HookIds \ LogIds(logs), u \in HookUpdates :
          (lastOp' = "updateAbsent" /\ callUpdateLog(id, u)) =>
              (logs' = logs /\ storage'.logs = storage.logs)
    /\ \A id \in HookIds \ LogIds(logs) :
          (lastOp' = "deleteAbsent" /\ callDeleteLog(id)) =>
              (logs' = logs /\ storage'.logs = storage.logs)

\* C15: updateLog and deleteLog called with an id that no entry of the
\* LogStore has leave the LogStore, and its stored copy, unchanged.
C15_AbsentIdIsNoOp == [][C15_AbsentIdIsNoOp_Step]_vars

\* updateLog was called with an absent id on a LogStore of two entries
C15_Witness ==
    /\ lastOp = "updateAbsent"
    /\ Len(logs) = 2
    /\ edits = 1
    /\ logs[2].action = "Use"

C17_NewestFirst_Step ==
    /\ (lastOp' = "archive" /\ callArchiveSession) =>
          (/\ Len(history') = Len(history) + 1
           /\ history'[1].id = nextId
           /\ history'[1].date = ToISOString(now)
           /\ history'[1].logs = logs
           /\ SubSeq(history', 2, Len(history')) = history)
    /\ \A i \in 1..(Len(history') - 1) :
          history'[i].date[2] > history'[i + 1].date[2]

\* C17: each successful archive puts the new ArchivedSession at index 0 and
\* the sessions archived before follow it, unchanged and in their previous
\* order; after every operation the ArchiveStore is ordered by archive date,
\* most recent first.
C17_NewestFirst == [][C17_NewestFirst_Step]_vars

\* a second session has just been archived
C17_Witness ==
    /\ lastOp = "archive"
    /\ Len(history) = 2
    /\ history[1].id > history[2].id
    /\ history[1].date[2] > history[2].date[2]
    /\ history[1].logs # history[2].logs

C18_ArchivesImmutable_Step ==
    /\ (lastOp' # "deleteHistory") =>
          (/\ Len(history') >= Len(history)
           /\ SubSeq(history', Len(history') - Len(history) + 1, Len(history'))
                 = history)
    /\ \A id \in HookIds :
          (lastOp' = "deleteHistory" /\ callDeleteHistory(id)) =>
              (/\ \E k \in 1..Len(history) :
                     /\ history[k].id = id
                     /\ history' = SubSeq(history, 1, k - 1)
                                      \o SubSeq(history, k + 1, Len(history))
               /\ UNCHANGED <<logs, sessionInfo>>)

\* C18: every operation other than deleteHistory of a present id leaves each
\* ArchivedSession of the ArchiveStore as it is (id, date, sessionInfo and
\* logs), in the same order; deleteHistory(id) removes exactly the session
\* with that id and leaves the other sessions, the LogStore and the
\* SessionInfo unchanged.
C18_ArchivesImmutable == [][C18_ArchivesImmutable_Step]_vars

\* of two archived sessions the newer one was deleted while the LogStore
\* held an entry of a third session
C18_Witness ==
    /\ lastOp = "deleteHistory"
    /\ Len(history) = 1
    /\ history[1].id = 2
    /\ Len(history[1].logs) = 1
    /\ Len(logs) = 1
    /\ logs[1].id = 5

\* C16: in every state with a non-empty LogStore, Finishing included, undo is
\* available (and an update or a delete of a present id, which the model
\* never disables).
C16_CorrectionsAlwaysLegal == (Len(logs) # 0) => UndoAvailable

C19_DeletesAreConfirmed_Step ==
    (\/ (lastOp' = "delete" /\ Len(logs') < Len(logs))
     \/ (lastOp' = "deleteHistory" /\ Len(history') < Len(history)))
        => lastOp = "confirm"

\* C19: an entry leaves the LogStore through deleteLog, and a session leaves
\* the ArchiveStore through deleteHistory, only in a step that follows a
\* confirmation step.
C19_DeletesAreConfirmed == [][C19_DeletesAreConfirmed_Step]_vars

C20_StartupNeverThrows_Step ==
    reload =>
        /\ ~crashed'
        /\ (keyState["logs"] # "ok") => (logs' = <<>>)
        /\ (keyState["session"] # "ok") => (sessionInfo' = EmptySessionInfo)
        /\ (keyState["history"] # "ok") => (history' = <<>>)
        /\ (keyState["settings"] # "ok") => (settings' = DefaultSettings)
        /\ ~isRecording'

\* C20: startup on a missing or malformed value under any key lets no
\* exception escape, and the piece of state of that key holds its default
\* (empty logs, all-empty SessionInfo, empty archive, default settings).
C20_StartupNeverThrows == [][C20_StartupNeverThrows_Step]_vars

C21_KeysReadIndependently_Step ==
    (reload /\ ~SettingsInitThrows) =>
        /\ (keyState["logs"] = "ok") =>
              (logs' = storage.logs /\ storage'.logs = storage.logs)
        /\ (keyState["session"] = "ok") =>
              (sessionInfo' = storage.session /\ storage'.session = storage.session)
        /\ (keyState["history"] = "ok") =>
              (history' = storage.history /\ storage'.history = storage.history)

\* C21: at a startup that completes, the well-formed value under each of the
\* keys of the log sequence, the session info and the archive list is loaded
\* into state and is still in storage afterwards, whatever the other keys
\* hold.
C21_KeysReadIndependently == [][C21_KeysReadIndependently_Step]_vars

C22_StorageMirrorsState_Step ==
    /\ storage'.logs = logs'
    /\ storage'.session = sessionInfo'
    /\ storage'.history = history'
    /\ reload => (logs' = logs /\ sessionInfo' = sessionInfo /\ history' = history)

\* C22: after every operation the stored log sequence, session info and
\* archive list equal the LogStore, SessionInfo and ArchiveStore in memory,
\* and a reload restores exactly those three values.
C22_StorageMirrorsState == [][C22_StorageMirrorsState_Step]_vars

\* the page was reloaded in the middle of a session with two entries and a
\* location
C22_Witness ==
    /\ lastOp = "reload"
    /\ Len(logs) = 2
    /\ sessionInfo.location = "x"
    /\ sessionInfo.startTime # Null
    /\ storage.logs = logs
    /\ storage.session = sessionInfo

\* C23: a drag of the bound touch point with dx^2 + dy^2 < 2500 is
\* classified Pass on both genders' zones (the drag back to the start point
\* included); a drag with dx^2 + dy^2 = 2500 is classified by its sector:
\* Look in [225, 315), Use in [45, 135), Stop in the zone's own side sector,
\* so (0, -50) is Look and (0, 50) is Use.
C23_DistanceStrictAt50 ==
    LET dx == activeTouch.currentX - activeTouch.startX
        dy == activeTouch.currentY - activeTouch.startY
        d2 == dx * dx + dy * dy
        u == dx + dy
        v == dy - dx
        own == IF activeTouch.gender = "Male" THEN u >= 0 /\ v < 0
                                              ELSE u <= 0 /\ v > 0
    IN (lastOp = "touchMove" /\ activeTouch # NoTouch) =>
         /\ (d2 < 2500) => (activeTouch.selectedAction = "Pass")
         /\ (d2 = 2500 /\ u < 0 /\ v <= 0) => (activeTouch.selectedAction = "Look")
         /\ (d2 = 2500 /\ u > 0 /\ v >= 0) => (activeTouch.selectedAction = "Use")
         /\ (d2 = 2500 /\ own) => (activeTouch.selectedAction = "Stop")
         /\ (dx = 0 /\ dy = -50) => (activeTouch.selectedAction = "Look")
         /\ (dx = 0 /\ dy = 50) => (activeTouch.selectedAction = "Use")

\* a drag of exactly 50 px straight up was classified Look
C23_Witness ==
    /\ lastOp = "touchMove"
    /\ activeTouch.currentX - activeTouch.startX = 0
    /\ activeTouch.currentY - activeTouch.startY = -50
    /\ activeTouch.selectedAction = "Look"

\* C24: a drag of length at least 50 is classified Look when its angle is in
\* [225, 315) and Use when it is in [45, 135), on both genders' zones; on a
\* Male zone Stop in [315, 360) and [0, 45) and Pass in [135, 225); on a
\* Female zone Stop in [135, 225) and Pass in [315, 360) and [0, 45).  With
\* u = dx + dy and v = dy - dx the four sectors are the quadrants of (u, v).
C24_SectorTable ==
    LET dx == activeTouch.currentX - activeTouch.startX
        dy == activeTouch.currentY - activeTouch.startY
        u == dx + dy
        v == dy - dx
        male == activeTouch.gender = "Male"
    IN (lastOp = "touchMove" /\ activeTouch # NoTouch /\ dx * dx + dy * dy >= 2500) =>
         /\ (u < 0 /\ v <= 0) => (activeTouch.selectedAction = "Look")
         /\ (u > 0 /\ v >= 0) => (activeTouch.selectedAction = "Use")
         /\ (u >= 0 /\ v < 0) =>
               (activeTouch.selectedAction = IF male THEN "Stop" ELSE "Pass")
         /\ (u <= 0 /\ v > 0) =>
               (activeTouch.selectedAction = IF male THEN "Pass" ELSE "Stop")
         /\ (dx = 0 /\ dy = -80 /\ male) => (activeTouch.selectedAction = "Look")
         /\ (dx = 0 /\ dy = 80 /\ male) => (activeTouch.selectedAction = "Use")
         /\ (dx = 80 /\ dy = 0 /\ male) => (activeTouch.selectedAction = "Stop")
         /\ (dx = -80 /\ dy = 0 /\ ~male) => (activeTouch.selectedAction = "Stop")

\* a drag of 80 px to the left on a Female zone was classified Stop
C24_Witness ==
    /\ lastOp = "touchMove"
    /\ activeTouch.gender = "Female"
    /\ activeTouch.currentX - activeTouch.startX = -80
    /\ activeTouch.currentY - activeTouch.startY = 0
    /\ activeTouch.selectedAction = "Stop"

\* C25: a drag of length at least 50 along a diagonal (|dx| = |dy|) follows
\* the half-open sectors: down-right (45 degrees) is Use, up-left (225) is
\* Look, down-left (135) is Stop on a Female zone and Pass on a Male zone,
\* up-right (315) is Stop on a Male zone and Pass on a Female zone.
C25_DiagonalsHalfOpen ==
    LET dx == activeTouch.currentX - activeTouch.startX
        dy == activeTouch.currentY - activeTouch.startY
        male == activeTouch.gender = "Male"
    IN (lastOp = "touchMove" /\ activeTouch # NoTouch /\ 2 * dx * dx >= 2500) =>
         /\ (dx > 0 /\ dy = dx) => (activeTouch.selectedAction = "Use")
         /\ (dx < 0 /\ dy = dx) => (activeTouch.selectedAction = "Look")
         /\ (dx < 0 /\ dy = -dx) =>
               (activeTouch.selectedAction = IF male THEN "Pass" ELSE "Stop")
         /\ (dx > 0 /\ dy = -dx) =>
               (activeTouch.selectedAction = IF male THEN "Stop" ELSE "Pass")

\* a drag along the down-left diagonal on a Female zone was classified Stop
C25_Witness ==
    /\ lastOp = "touchMove"
    /\ activeTouch.gender = "Female"
    /\ activeTouch.currentX - activeTouch.startX = -36
    /\ activeTouch.currentY - activeTouch.startY = 36
    /\ activeTouch.selectedAction = "Stop"

C28_ExportRows_Step ==
    LET Emitted(l) ==
          /\ download' # NoDownload
          /\ Len(download'.rows) = Len(l)
          /\ download'.total = Len(download'.rows)
          /\ \A k \in 1..Len(l) :
                /\ download'.rows[k][1] = l[k].id
                /\ download'.rows[k][11] = (IF l[k].isPass THEN "1" ELSE "0")
                /\ download'.rows[k][12] = (IF l[k].isLook THEN "1" ELSE "0")
                /\ download'.rows[k][13] = (IF l[k].isStop THEN "1" ELSE "0")
                /\ download'.rows[k][14] = (IF l[k].isUse THEN "1" ELSE "0")
          /\ UNCHANGED <<logs, sessionInfo, history, isRecording, mode>>
    IN /\ (lastOp' \in {"export", "exportHistory", "exportEmpty"}) =>
            UNCHANGED <<logs, sessionInfo, history, isRecording, mode>>
       /\ (lastOp' = "export" /\ exportTemp /\ Len(logs) > 0) => Emitted(logs)
       /\ \A i \in 1..Len(history) :
            (lastOp' = "exportHistory" /\ exportHistory(i)
               /\ Len(history[i].logs) > 0) => Emitted(history[i].logs)

\* C28: an export of a non-empty log sequence (the current one from the
\* finishing overlay, an archived one from the settings panel) emits one row
\* per entry in the sequence's order, a Total Records count equal to the
\* number of rows, and in columns 11 to 14 of each row the entry's isPass,
\* isLook, isStop and isUse; it changes none of logs, sessionInfo, history,
\* isRecording and uiState.mode.
C28_ExportRows == [][C28_ExportRows_Step]_vars

\* the current session was exported with two entries, the second a Look
C28_Witness ==
    /\ lastOp = "export"
    /\ Len(logs) = 2
    /\ Len(download.rows) = 2
    /\ download.rows[1][1] = logs[1].id
    /\ download.rows[2][1] = logs[2].id
    /\ logs[2].isLook /\ ~logs[2].isUse
    /\ download.rows[2][12] = "1" /\ download.rows[2][14] = "0"

\* C26: a gesture that began with a pointer-down while uiState.mode was
\* 'recording' and ended with its pointer-up, no other touch point or handler
\* in between, has added exactly one entry, with the zone's gender and group
\* flag and the category of its last move (Pass without a move), and has left
\* the gesture slot empty.
C26_EpisodeCommitsOne ==
    (episode.st = "closed") =>
        /\ Len(logs) = episode.n + 1
        /\ logs[Len(logs)].gender = episode.gender
        /\ logs[Len(logs)].isGroup = episode.isGroup
        /\ logs[Len(logs)].action = episode.cat
        /\ activeTouch = NoTouch

C27_FeedbackFailureIsHarmless_Step ==
    /\ (lastOp' = "beginSetup") =>
          (mode' = "setup" /\ UNCHANGED <<logs, sessionInfo, history, isRecording>>)
    /\ (lastOp' = "start") =>
          /\ mode' = "recording" /\ isRecording'
          /\ sessionInfo' = StartInfo(sessionInfo, now)
          /\ UNCHANGED <<logs, history>>
    /\ (lastOp' = "stop") =>
          /\ mode' = "finishing" /\ ~isRecording'
          /\ sessionInfo' = StopInfo(sessionInfo, now)
          /\ UNCHANGED <<logs, history>>
    /\ (lastOp' = "archive") =>
          /\ mode' = "idle"
          /\ logs' = <<>>
          /\ sessionInfo' = EmptySessionInfo
          /\ Len(history') = Len(history) + 1
          /\ history'[1].logs = logs
          /\ UNCHANGED isRecording
    /\ (lastOp' = "touchEnd" /\ activeTouch # NoTouch) =>
          /\ Len(logs') = Len(logs) + 1
          /\ SubSeq(logs', 1, Len(logs)) = logs
          /\ logs'[Len(logs')].gender = activeTouch.gender
          /\ logs'[Len(logs')].isGroup = activeTouch.isGroup
          /\ logs'[Len(logs')].action = activeTouch.selectedAction
          /\ activeTouch' = NoTouch
          /\ UNCHANGED <<sessionInfo, history, isRecording, mode>>

\* C27: whatever the vibration and audio APIs do (absent, working, throwing),
\* beginSetup, start, stop, archive and the commit of a gesture leave logs,
\* sessionInfo, history, isRecording and uiState.mode as the handler's own
\* statements set them, and the commit empties the gesture slot.
C27_FeedbackFailureIsHarmless == [][C27_FeedbackFailureIsHarmless_Step]_vars

\* a gesture was committed in a browser whose vibrate call throws and that
\* has no AudioContext: nothing was felt or heard, the entry is in the log
C27_Witness ==
    /\ port.vibrate = "throws"
    /\ port.audio = "absent"
    /\ lastOp = "touchEnd"
    /\ feedback.type = "record"
    /\ feedback.vibrate = <<>>
    /\ ~feedback.tone
    /\ Len(logs) = 1
    /\ activeTouch = NoTouch

C29_ForeignMoveIgnored_Step ==
    \A p \in PointerIds, pos \in MovePoints :
        (lastOp' = "touchMoveOther" /\ activeTouch # NoTouch
           /\ p # activeTouch.id /\ handleTouchMove(p, pos)) =>
            (activeTouch' = activeTouch /\ feedback' = NoFeedback)

\* C29: while the gesture slot is bound to a touch point, a touchmove of
\* another touch point leaves the slot as it is (identifier, start position,
\* current category) and calls no feedback.
C29_ForeignMoveIgnored == [][C29_ForeignMoveIgnored_Step]_vars

\* a second finger moved while the slot, bound to the first and already
\* dragged to a category, stayed as it was
C29_Witness ==
    /\ lastOp = "touchMoveOther"
    /\ Cardinality(down) = 2
    /\ activeTouch # NoTouch
    /\ activeTouch.selectedAction # "Pass"
    /\ feedback = NoFeedback

C30_SecondPointerRebinds_Step ==
    \A p \in PointerIds, z \in Zones, pos \in StartPoints :
        (lastOp' = "touchStart" /\ mode = "recording" /\ activeTouch # NoTouch
           /\ handleTouchStart(p, z[1], z[2], pos)) =>
            activeTouch' = [id |-> p, gender |-> z[1], isGroup |-> z[2],
                            startX |-> pos[1], startY |-> pos[2],
                            currentX |-> pos[1], currentY |-> pos[2],
                            selectedAction |-> "Pass"]

\* C30: a pointer-down on a zone that arrives while uiState.mode is
\* 'recording' and the gesture slot is bound to another touch point rebinds
\* the slot: the new identifier, the zone's gender and group flag, the new
\* start position, category Pass.
C30_SecondPointerRebinds == [][C30_SecondPointerRebinds_Step]_vars

C31_PhaseTransitions_Step ==
    (mode' # mode /\ lastOp' # "reload") =>
        <<mode, mode', lastOp'>> \in
            {<<"idle", "setup", "beginSetup">>,
             <<"setup", "idle", "cancelSetup">>,
             <<"setup", "recording", "start">>,
             <<"recording", "finishing", "stop">>,
             <<"finishing", "recording", "resume">>,
             <<"finishing", "idle", "archive">>}

\* C31: a handler changes uiState.mode only along idle -> setup (beginSetup),
\* setup -> idle (cancelSetup), setup -> recording (start), recording ->
\* finishing (stop), finishing -> recording (resume) and finishing -> idle
\* (an archive that succeeded).  A restart of the page is not a handler: it
\* begins again in idle.
C31_PhaseTransitions == [][C31_PhaseTransitions_Step]_vars

\* a session with one entry was stopped and resumed
C31_Witness ==
    /\ lastOp = "resume"
    /\ mode = "recording"
    /\ Len(logs) = 1
    /\ sessionInfo.startTime # Null

C32_IdsDistinctAndStable_Step ==
    /\ \A i, j \in 1..Len(logs') : (logs'[i].id = logs'[j].id) => (i = j)
    /\ (Len(logs') = Len(logs)) =>
          (\A i \in 1..Len(logs) : logs'[i].id = logs[i].id)
    /\ (Len(logs') = Len(logs) + 1) =>
          /\ \A i \in 1..Len(logs) : logs'[i].id = logs[i].id
          /\ logs'[Len(logs')].id \notin LogIds(logs)
    /\ (Len(logs') < Len(logs)) => (LogIds(logs') \subseteq LogIds(logs))

\* C32: the ids of the entries of logs are pairwise distinct; a step that
\* keeps the length keeps every entry's id, a step that adds an entry adds it
\* at the tail with an id no entry has, a step that removes entries brings no
\* new id.
C32_IdsDistinctAndStable == [][C32_IdsDistinctAndStable_Step]_vars

\* the first of two entries was deleted: the one left has the second id
C32_Witness ==
    /\ lastOp = "delete"
    /\ Len(logs) = 1
    /\ logs[1].id = 2

C34_PhaseRepresentationsAgree == isRecording <=> (mode = "recording")

\* C35: while uiState.mode is 'idle', 'setup' or 'finishing' the gesture slot
\* is empty.
C35_NoGestureOutsideRecording == (mode # "recording") => (activeTouch = NoTouch)

C36_ForeignPointerUpIgnored_Step ==
    \A p \in PointerIds :
        (lastOp' = "touchEnd" /\ activeTouch # NoTouch /\ p # activeTouch.id
           /\ handleTouchEnd(p)) =>
            (logs' = logs /\ activeTouch' = activeTouch)

\* C36: while the gesture slot is bound to a touch point, the pointer-up of
\* another touch point adds no entry and leaves the slot as it is.
C36_ForeignPointerUpIgnored == [][C36_ForeignPointerUpIgnored_Step]_vars

\* C37: every entry of every archived session was recorded between the
\* session's start and its end: startTime <= unixTime <= endTime.
C37_ArchiveTimesConsistent ==
    \A h \in 1..Len(history) :
        \A i \in 1..Len(history[h].logs) :
            /\ history[h].sessionInfo.startTime # Null
            /\ history[h].sessionInfo.endTime # Null
            /\ history[h].sessionInfo.startTime <= history[h].logs[i].unixTime
            /\ history[h].logs[i].unixTime <= history[h].sessionInfo.endTime

\* C38: every archived session has at least one entry and an endTime that is
\* not null, whether or not the session was stopped before it was archived.
C38_ArchivesClosedAndNonEmpty ==
    \A h \in 1..Len(history) :
        /\ Len(history[h].logs) >= 1
        /\ history[h].sessionInfo.endTime # Null

\* a session that was never stopped was archived: its endTime is the instant
\* of the archive
C38_Witness ==
    /\ lastOp = "archive"
    /\ Len(history) >= 1
    /\ sessionInfo.endTime = Null
    /\ history[1].sessionInfo.endTime # Null
    /\ history[1].date = ToISOString(history[1].sessionInfo.endTime)

\* C39 as stated: for every drag (dx, dy) on a Male zone the category is the
\* one the mirrored drag (-dx, dy) gets on a Female zone, and the other way
\* round.
C39_MirrorSymmetric ==
    LET dx == activeTouch.currentX - activeTouch.startX
        dy == activeTouch.currentY - activeTouch.startY
        other == IF activeTouch.gender = "Male" THEN "Female" ELSE "Male"
    IN (lastOp = "touchMove" /\ activeTouch # NoTouch) =>
         (activeTouch.selectedAction = determineAction(-dx, dy, other))

\* C39, amended: the category of a drag (dx, dy) on one gender's zone is the
\* category of the mirrored drag (-dx, dy) on the other gender's zone for
\* every drag that is shorter than 50 or does not lie on a diagonal
\* (|dx| # |dy|); on the diagonals the half-open sectors are not mirror
\* images of each other.
C39_MirrorSymmetricOffDiagonals ==
    LET dx == activeTouch.currentX - activeTouch.startX
        dy == activeTouch.currentY - activeTouch.startY
        other == IF activeTouch.gender = "Male" THEN "Female" ELSE "Male"
    IN (lastOp = "touchMove" /\ activeTouch # NoTouch
          /\ (dx * dx + dy * dy < 2500 \/ (dx # dy /\ dx # -dy))) =>
         (activeTouch.selectedAction = determineAction(-dx, dy, other))

\* a drag to the right and slightly down on a Male zone was classified Stop,
\* as its mirror image is on a Female zone
C39_Witness ==
    /\ lastOp = "touchMove"
    /\ activeTouch.gender = "Male"
    /\ activeTouch.currentX - activeTouch.startX = 80
    /\ activeTouch.currentY - activeTouch.startY = 30
    /\ activeTouch.selectedAction = "Stop"
    /\ determineAction(-80, 30, "Female") = "Stop"

====
